---- MODULE Spec2Model ----
(***************************************************************************)
(* Models of the example programs of the repository.  Every program is a   *)
(* standalone executable; each gets its own variables, its own actions and *)
(* its own specification over the common initial state:                    *)
(*   Spec          the threaded printer (ThreadSafePrinter, two workers)   *)
(*   FairSpec      the threaded printer under a fair scheduler             *)
(*   SpecShapes    the virtual and the CRTP shape programs                 *)
(*   SpecTemplates getLarger / arity / sum                                 *)
(*   SpecResource  the unique_ptr, make_unique and shared_ptr programs     *)
(*   SpecIfInit    the if-with-initializer locking statement               *)
(*   SpecEmplace   the emplace_back program                                *)
(*   SpecMove      the move semantics program                              *)
(***************************************************************************)
EXTENDS Integers, Sequences, FiniteSets, TLC

VARIABLES
    \* ---- threaded printer ----
    mainPc,         \* main's position
    threadsVector,  \* std::vector<std::thread>: the workers, in emplace order
    joinIdx,        \* position of the range-for over threadsVector
    wpc,            \* each worker's position inside printMessage
    threadId,       \* std::this_thread::get_id() of each worker (0: not started)
    oss,            \* each worker's private std::ostringstream
    coutMutex,      \* ThreadSafePrinter::coutMutex: TRUE when locked
    lockGuard,      \* each worker's std::lock_guard: TRUE while it owns the mutex
    cout,           \* the shared output stream: the strings written, in order
    \* ---- shape programs (virtual and CRTP), one entry per program ----
    spc,            \* main's statement index
    sstack,         \* call stack below main: frames [fn, self, at]
    sobjs,          \* the declared objects and their types
    sout,           \* what the program has printed
    \* ---- template program (getLarger, arity, sum) ----
    tpc,            \* main's position
    tmem,           \* main's local variables
    largerString,   \* the variable the reference largerString is bound to
    tin,            \* the values main's literals were given in this run
    tout,           \* what the program has printed: <<label, value>> pairs
    \* ---- smart pointer programs, one entry per program ----
    rpc,            \* the program's position
    rheap,          \* the addresses operator new has handed out and not got back
    rlive,          \* the addresses holding a constructed, not yet destroyed object
    rraw,           \* the pointer the new-expression is working on (0: none)
    rptr,           \* the pointer the smart pointer owns (0: nullptr)
    ruse,           \* shared_ptr: the use count of the control block
    mvalue,         \* make_unique program: MyClass::m_value of the object
    rout,           \* what the program has printed
    \* ---- if statement with initializer, run by several threads ----
    ipc,            \* each thread's position in the statement
    mx,             \* std::mutex mx: TRUE when locked
    lk,             \* each thread's lock_guard lk: TRUE while it owns mx
    v,              \* the shared vector v
    \* ---- emplace_back program ----
    epc,            \* main's statement index
    estep,          \* the position inside the running emplace_back call
    edata,          \* myVector's storage: one slot per unit of capacity
    enew,           \* the larger storage a reallocation is filling (<<>>: none)
    esize,          \* myVector.size()
    ector,          \* the calls of MyClass(int, std::string): <<x, y>>, in order
    eout,           \* what the program has printed
    \* ---- move semantics program ----
    mpc,            \* where control is: start, main, body, done
    mcalls,         \* the function bodies main calls, in order
    mcall,          \* the index of main's current call
    mstmt,          \* the index of the current statement of the running body
    mlocals,        \* the locals of the running function, in construction order
    mstate,         \* each local: none, live, moved-from, destroyed
    mdtors,         \* how often each local's destructor ran in this call
    mstart,         \* Len(mout) when the current (or last) call started
    mout            \* what the program has printed

printerVars == <<mainPc, threadsVector, joinIdx, wpc, threadId, oss, coutMutex,
                 lockGuard, cout>>
shapeVars == <<spc, sstack, sobjs, sout>>
templVars == <<tpc, tmem, largerString, tin, tout>>
resVars == <<rpc, rheap, rlive, rraw, rptr, ruse, mvalue, rout>>
ifVars == <<ipc, mx, lk, v>>
emplaceVars == <<epc, estep, edata, enew, esize, ector, eout>>
moveVars == <<mpc, mcalls, mcall, mstmt, mlocals, mstate, mdtors, mstart, mout>>

vars == <<printerVars, shapeVars, templVars, resVars, ifVars, emplaceVars,
          moveVars>>

(***************************************************************************)
(* The threaded printer                                                    *)
(***************************************************************************)

\* A step of the printer program touches no other program's state.
PrinterOnly == UNCHANGED <<shapeVars, templVars, resVars, ifVars, emplaceVars, moveVars>>

\* The two callables handed to std::thread, named after what they run.
Workers == {"lambda", "someThreadFunction"}

\* The literal each worker passes to printMessage.
Message(w) ==
    IF w = "lambda" THEN "Hello from the lambda function!"
                    ELSE "Hello from someThreadFunction()!"

\* Thread ids are chosen by the implementation: any unused id of this range.
MaxThreadId == 3
ThreadIds == 1..MaxThreadId

\* oss << "Message: \"" << message << "\" from thread: " << get_id() << endl
Format(message, id) == <<"Message: \"", message, "\" from thread: ", id, "\n">>

PrinterInit ==
    /\ mainPc = "emplace_lambda"
    /\ threadsVector = <<>>
    /\ joinIdx = 1
    /\ wpc = [w \in Workers |-> "unstarted"]
    /\ threadId = [w \in Workers |-> 0]
    /\ oss = [w \in Workers |-> <<>>]
    /\ coutMutex = FALSE
    /\ lockGuard = [w \in Workers |-> FALSE]
    /\ cout = <<>>

\* threadsVector.emplace_back(callable): constructs the std::thread, which starts
\* running the callable at once, with an id no other live thread has.
StartThread(w) ==
    /\ \E id \in ThreadIds \ {threadId[x] : x \in Workers} :
          threadId' = [threadId EXCEPT ![w] = id]
    /\ threadsVector' = Append(threadsVector, w)
    /\ wpc' = [wpc EXCEPT ![w] = "format"]

EmplaceLambda ==
    /\ mainPc = "emplace_lambda"
    /\ StartThread("lambda")
    /\ mainPc' = "emplace_function"
    /\ UNCHANGED <<joinIdx, oss, coutMutex, lockGuard, cout>>
    /\ PrinterOnly

EmplaceFunction ==
    /\ mainPc = "emplace_function"
    /\ StartThread("someThreadFunction")
    /\ mainPc' = "join"
    /\ UNCHANGED <<joinIdx, oss, coutMutex, lockGuard, cout>>
    /\ PrinterOnly

\* Faulty variant of Joinable: join() returns as soon as the thread was started,
\* as if the thread had been detached.
JoinableOnceStarted(w) == wpc[w] # "unstarted"

\* thread.join() returns once the thread's execution has completed.
Joinable(w) == wpc[w] = "finished"

\* One iteration of  for (auto& thread : threadsVector) thread.join();
Join ==
    /\ mainPc = "join"
    /\ joinIdx <= Len(threadsVector)
    /\ Joinable(threadsVector[joinIdx])
    /\ joinIdx' = joinIdx + 1
    /\ UNCHANGED <<mainPc, threadsVector, wpc, threadId, oss, coutMutex,
                   lockGuard, cout>>
    /\ PrinterOnly

\* The range-for is exhausted: main returns.
MainReturn ==
    /\ mainPc = "join"
    /\ joinIdx > Len(threadsVector)
    /\ mainPc' = "done"
    /\ UNCHANGED <<threadsVector, joinIdx, wpc, threadId, oss, coutMutex,
                   lockGuard, cout>>
    /\ PrinterOnly

\* Faulty variant of PrintFormat: the lock_guard is declared before the string is
\* built, so the formatting runs under the lock.
PrintFormatUnderLock(w) ==
    /\ wpc[w] = "format"
    /\ ~coutMutex
    /\ coutMutex' = TRUE
    /\ lockGuard' = [lockGuard EXCEPT ![w] = TRUE]
    /\ oss' = [oss EXCEPT ![w] = Format(Message(w), threadId[w])]
    /\ wpc' = [wpc EXCEPT ![w] = "write"]
    /\ UNCHANGED <<mainPc, threadsVector, joinIdx, threadId, cout>>
    /\ PrinterOnly

\* printMessage, first statement: build the string in the local ostringstream.
PrintFormat(w) ==
    /\ wpc[w] = "format"
    /\ oss' = [oss EXCEPT ![w] = Format(Message(w), threadId[w])]
    /\ wpc' = [wpc EXCEPT ![w] = "lock"]
    /\ UNCHANGED <<mainPc, threadsVector, joinIdx, threadId, coutMutex,
                   lockGuard, cout>>
    /\ PrinterOnly

\* Faulty variant of PrintLock: the guard does not wait for the mutex (as with
\* std::try_to_lock whose result is ignored).
PrintLockNoWait(w) ==
    /\ wpc[w] = "lock"
    /\ coutMutex' = TRUE
    /\ lockGuard' = [lockGuard EXCEPT ![w] = TRUE]
    /\ wpc' = [wpc EXCEPT ![w] = "write"]
    /\ UNCHANGED <<mainPc, threadsVector, joinIdx, threadId, oss, cout>>
    /\ PrinterOnly

\* Variant of PrintLock that serves the workers in the order they were started
\* (a ticket lock): a worker waits for every worker emplaced before it.
PrintLockInStartOrder(w) ==
    /\ wpc[w] = "lock"
    /\ ~coutMutex
    /\ \A i \in 1..Len(threadsVector) :
          (\E j \in (i + 1)..Len(threadsVector) : threadsVector[j] = w)
              => wpc[threadsVector[i]] \in {"unlock", "finished"}
    /\ coutMutex' = TRUE
    /\ lockGuard' = [lockGuard EXCEPT ![w] = TRUE]
    /\ wpc' = [wpc EXCEPT ![w] = "write"]
    /\ UNCHANGED <<mainPc, threadsVector, joinIdx, threadId, oss, cout>>
    /\ PrinterOnly

\* std::lock_guard<std::mutex> lock(coutMutex): blocks while the mutex is locked.
PrintLock(w) ==
    /\ wpc[w] = "lock"
    /\ ~coutMutex
    /\ coutMutex' = TRUE
    /\ lockGuard' = [lockGuard EXCEPT ![w] = TRUE]
    /\ wpc' = [wpc EXCEPT ![w] = "write"]
    /\ UNCHANGED <<mainPc, threadsVector, joinIdx, threadId, oss, cout>>
    /\ PrinterOnly

\* std::cout << oss.str();
PrintWrite(w) ==
    /\ wpc[w] = "write"
    /\ cout' = Append(cout, oss[w])
    /\ wpc' = [wpc EXCEPT ![w] = "unlock"]
    /\ UNCHANGED <<mainPc, threadsVector, joinIdx, threadId, oss, coutMutex,
                   lockGuard>>
    /\ PrinterOnly

\* Faulty variant of PrintUnlock: printMessage locks with coutMutex.lock() and
\* returns without unlocking, so the mutex stays locked when the thread ends.
PrintReturnWithoutUnlock(w) ==
    /\ wpc[w] = "unlock"
    /\ coutMutex' = coutMutex
    /\ lockGuard' = [lockGuard EXCEPT ![w] = FALSE]
    /\ wpc' = [wpc EXCEPT ![w] = "finished"]
    /\ UNCHANGED <<mainPc, threadsVector, joinIdx, threadId, oss, cout>>
    /\ PrinterOnly

\* End of printMessage's scope: ~lock_guard unlocks the mutex; the callable
\* returns and the thread's execution is complete.
PrintUnlock(w) ==
    /\ wpc[w] = "unlock"
    /\ coutMutex' = FALSE
    /\ lockGuard' = [lockGuard EXCEPT ![w] = FALSE]
    /\ wpc' = [wpc EXCEPT ![w] = "finished"]
    /\ UNCHANGED <<mainPc, threadsVector, joinIdx, threadId, oss, cout>>
    /\ PrinterOnly


Next ==
    \/ EmplaceLambda
    \/ EmplaceFunction
    \/ Join
    \/ MainReturn
    \/ \E w \in Workers : PrintFormat(w)
    \/ \E w \in Workers : PrintLock(w)
    \/ \E w \in Workers : PrintWrite(w)
    \/ \E w \in Workers : PrintUnlock(w)

\* The steps of the launching thread, and those of one worker thread.
MainStep == EmplaceLambda \/ EmplaceFunction \/ Join \/ MainReturn

WorkerStep(w) == PrintFormat(w) \/ PrintLock(w) \/ PrintWrite(w) \/ PrintUnlock(w)

(***************************************************************************)
(* The shape programs: virtual dispatch and CRTP                           *)
(***************************************************************************)

\* A step of a shape program touches no other program's state.
ShapesOnly == UNCHANGED <<printerVars, templVars, resVars, ifVars, emplaceVars, moveVars>>

\* The two versions of the program: with virtual functions, and with CRTP.
Programs == {"virtual", "crtp"}

\* main's statements, the same in both versions.
MainStmts ==
    << [kind |-> "decl",   class |-> "Circle", var |-> "c"],
       [kind |-> "decl",   class |-> "Square", var |-> "s"],
       [kind |-> "render", class |-> "",       var |-> "c"],
       [kind |-> "render", class |-> "",       var |-> "s"],
       [kind |-> "return", class |-> "",       var |-> ""] >>

ShapeDone(p) == spc[p] > Len(MainStmts)

ShapeStmt(p) == MainStmts[spc[p]]

ShapesInit ==
    /\ spc = [p \in Programs |-> 1]
    /\ sstack = [p \in Programs |-> <<>>]
    /\ sobjs = [p \in Programs |-> [x \in {"c", "s"} |-> ""]]
    /\ sout = [p \in Programs |-> <<>>]

\* The text each class's draw (virtual) or drawImpl (CRTP) sends to std::cout.
DrawText(cls) ==
    CASE cls = "Circle" -> "Drawing Circle\n"
      [] cls = "Square" -> "Drawing Square\n"

\* Faulty variant of CrtpBaseArg: Square copied from Circle with the template
\* argument of its base left unchanged (class Square : public Shape<Circle>).
CrtpBaseArgCopied(cls) == "Circle"

\* The Derived argument each class passes to its CRTP base:
\* class Circle : public Shape<Circle>, class Square : public Shape<Square>.
CrtpBaseArg(cls) ==
    CASE cls = "Circle" -> "Circle"
      [] cls = "Square" -> "Square"

\* The type render sees its argument as: const Shape& in the virtual version,
\* the deduced ShapeType (the argument's declared type) in the CRTP version.
RenderParamType(p, x) == IF p = "virtual" THEN "Shape" ELSE sobjs[p][x]

\* The class whose draw runs for shape.draw() inside render.  Virtual: the final
\* overrider of the object's dynamic type.  CRTP: Shape<Derived>::draw of the
\* base of ShapeType, recorded by its Derived argument.
DrawTarget(p, frame) ==
    IF p = "virtual" THEN sobjs[p][frame.self] ELSE CrtpBaseArg(frame.cls)

Top(p) == sstack[p][Len(sstack[p])]

\* The stack with its top frame marked as past its call/print, then `more` pushed.
Advance(p, more) ==
    [sstack EXCEPT ![p] =
        SubSeq(@, 1, Len(@) - 1) \o <<[Top(p) EXCEPT !.at = "end"]>> \o more]

\* Circle c;  /  Square s;
ShapeDeclare(p) ==
    /\ ~ShapeDone(p)
    /\ ShapeStmt(p).kind = "decl"
    /\ sobjs' = [sobjs EXCEPT ![p][ShapeStmt(p).var] = ShapeStmt(p).class]
    /\ spc' = [spc EXCEPT ![p] = @ + 1]
    /\ UNCHANGED <<sstack, sout>>
    /\ ShapesOnly

\* render(c);  /  render(s);  main calls render.
ShapeCallRender(p) ==
    /\ ~ShapeDone(p)
    /\ ShapeStmt(p).kind = "render"
    /\ sstack[p] = <<>>
    /\ sstack' = [sstack EXCEPT ![p] =
                    <<[fn |-> "render", cls |-> RenderParamType(p, ShapeStmt(p).var),
                       self |-> ShapeStmt(p).var, at |-> "body"]>>]
    /\ UNCHANGED <<spc, sobjs, sout>>
    /\ ShapesOnly

\* shape.draw();  inside render.
ShapeCallDraw(p) ==
    /\ sstack[p] # <<>>
    /\ Top(p).fn = "render"
    /\ Top(p).at = "body"
    /\ sstack' = Advance(p, <<[fn |-> "draw", cls |-> DrawTarget(p, Top(p)),
                               self |-> Top(p).self, at |-> "body"]>>)
    /\ UNCHANGED <<spc, sobjs, sout>>
    /\ ShapesOnly

\* static_cast<const Derived*>(this)->drawImpl();  inside Shape<Derived>::draw.
ShapeCallDrawImpl(p) ==
    /\ p = "crtp"
    /\ sstack[p] # <<>>
    /\ Top(p).fn = "draw"
    /\ Top(p).at = "body"
    /\ sstack' = Advance(p, <<[fn |-> "drawImpl", cls |-> Top(p).cls,
                               self |-> Top(p).self, at |-> "body"]>>)
    /\ UNCHANGED <<spc, sobjs, sout>>
    /\ ShapesOnly

\* std::cout << "Drawing ...\n";  the body of draw (virtual) or drawImpl (CRTP).
ShapePrint(p) ==
    /\ sstack[p] # <<>>
    /\ Top(p).fn = (IF p = "virtual" THEN "draw" ELSE "drawImpl")
    /\ Top(p).at = "body"
    /\ sout' = [sout EXCEPT ![p] = Append(@, DrawText(Top(p).cls))]
    /\ sstack' = Advance(p, <<>>)
    /\ UNCHANGED <<spc, sobjs>>
    /\ ShapesOnly

\* The end of a function body: return to the caller; when render returns, main
\* moves to its next statement.
ShapeReturn(p) ==
    /\ sstack[p] # <<>>
    /\ Top(p).at = "end"
    /\ sstack' = [sstack EXCEPT ![p] = SubSeq(@, 1, Len(@) - 1)]
    /\ spc' = [spc EXCEPT ![p] = IF Len(sstack[p]) = 1 THEN @ + 1 ELSE @]
    /\ UNCHANGED <<sobjs, sout>>
    /\ ShapesOnly

\* return 0;
ShapeMainReturn(p) ==
    /\ ~ShapeDone(p)
    /\ ShapeStmt(p).kind = "return"
    /\ spc' = [spc EXCEPT ![p] = @ + 1]
    /\ UNCHANGED <<sstack, sobjs, sout>>
    /\ ShapesOnly

ShapesNext ==
    \/ \E p \in Programs : ShapeDeclare(p)
    \/ \E p \in Programs : ShapeCallRender(p)
    \/ \E p \in Programs : ShapeCallDraw(p)
    \/ \E p \in Programs : ShapeCallDrawImpl(p)
    \/ \E p \in Programs : ShapePrint(p)
    \/ \E p \in Programs : ShapeReturn(p)
    \/ \E p \in Programs : ShapeMainReturn(p)

(***************************************************************************)
(* The template program: getLarger, arity, sum                             *)
(***************************************************************************)

\* A step of the template program touches no other program's state.
TemplatesOnly == UNCHANGED <<printerVars, shapeVars, resVars, ifVars, emplaceVars, moveVars>>

\* std::string values, as the sequences of their character codes.
Hello == <<72, 101, 108, 108, 111>>
World == <<87, 111, 114, 108, 100>>
HelloWorld == <<72, 101, 108, 108, 111, 32, 87, 111, 114, 108, 100>>

\* The values string1 and string2 are tried with; main uses Hello and World.
StringSamples == {Hello, World}

\* operator> of std::string: lexicographic comparison of the characters.
RECURSIVE StrGreater(_, _)
StrGreater(a, b) ==
    IF a = <<>> THEN FALSE
    ELSE IF b = <<>> THEN TRUE
    ELSE IF Head(a) # Head(b) THEN Head(a) > Head(b)
    ELSE StrGreater(Tail(a), Tail(b))

\* a > b for the types main instantiates getLarger with.  A double is kept as
\* <<numerator, denominator>> with a positive denominator.
Greater(T, a, b) ==
    CASE T = "int" -> a > b
      [] T = "double" -> a[1] * b[2] > b[1] * a[2]
      [] T = "std::string" -> StrGreater(a, b)

\* getLarger: return (a > b) ? a : b;  the result is a reference to one of the
\* two parameters, named here by the parameter it is bound to.
GetLarger(T, a, b) == IF Greater(T, a, b) THEN "a" ELSE "b"

\* The names of the types a parameter pack is built from, and the packs tried
\* with arity; main uses <int, float>.
TypeNames == {"int", "float"}
MaxPack == 2
Packs == UNION {[1..n -> TypeNames] : n \in 0..MaxPack}

\* Faulty variant of Arity: counts the different types of the pack.
ArityDistinct(pack) == Cardinality({pack[i] : i \in DOMAIN pack})

\* arity<T...>::value = sizeof...(T)
Arity(pack) == Len(pack)

\* The argument types sum is tried with, and their ranges.
IntMax == 2147483647
UCharMax == 255
TypeMax(T) == IF T = "int" THEN IntMax ELSE UCharMax
TypeMin(T) == IF T = "int" THEN -IntMax - 1 ELSE 0

\* The values sum's arguments are drawn from, and how many arguments.
MaxArgs == 2
ValueSamples(T) ==
    IF T = "int" THEN {-1, 1, TypeMax(T), TypeMin(T)} ELSE {1, 100, 200}

\* The literal call of main: sum(1, 2, 3, 4, 5, 6, 7, 8, 9, 10).
MainSumArgs == <<1, 2, 3, 4, 5, 6, 7, 8, 9, 10>>

ArgLists(T) == UNION {[1..n -> ValueSamples(T)] : n \in 1..MaxArgs}

SumInputs ==
    {[type |-> "int", args |-> MainSumArgs]} \cup
    {[type |-> "int", args |-> a] : a \in ArgLists("int")} \cup
    {[type |-> "unsigned char", args |-> a] : a \in ArgLists("unsigned char")}

\* init + x as std::accumulate computes it for init of type T.  int: the sum
\* overflows when it leaves the range of int, which is undefined; `value` is
\* then what two's complement wrap-around gives.  unsigned char: both operands
\* are promoted to int, and the sum is converted back to unsigned char.
AddStep(T, acc, x) ==
    IF T = "int"
    THEN IF x > 0 /\ acc > IntMax - x
         THEN [value |-> (acc + (-IntMax - 1)) + (x + (-IntMax - 1)), ub |-> TRUE]
         ELSE IF x < 0 /\ acc < (-IntMax - 1) - x
         THEN [value |-> (acc - (-IntMax - 1)) + (x - (-IntMax - 1)), ub |-> TRUE]
         ELSE [value |-> acc + x, ub |-> FALSE]
    ELSE [value |-> (acc + x) % (UCharMax + 1), ub |-> FALSE]

\* std::accumulate(values.begin(), values.end(), init): a left fold.
RECURSIVE Accumulate(_, _, _)
Accumulate(T, values, init) ==
    IF values = <<>> THEN init
    ELSE LET r == AddStep(T, init.value, Head(values))
         IN  Accumulate(T, Tail(values),
                        [value |-> r.value, ub |-> init.ub \/ r.ub])

\* Faulty variant of Sum: the initializer list is built from otherArguments
\* alone, so the first argument is left out.
SumWithoutFirst(T, args) ==
    Accumulate(T, Tail(args), [value |-> 0, ub |-> FALSE])

\* sum(firstArgument, otherArguments...): values = {firstArgument,
\* otherArguments...}, accumulated from First{0}.
Sum(T, args) == Accumulate(T, args, [value |-> 0, ub |-> FALSE])

TemplatesInit ==
    /\ tpc = "ints"
    /\ tmem = [int1 |-> 0, int2 |-> 0, double1 |-> <<0, 1>>, double2 |-> <<0, 1>>,
               string1 |-> <<>>, string2 |-> <<>>]
    /\ largerString = ""
    /\ tin = [pack |-> <<>>, sumType |-> "", sumArgs |-> <<>>,
              string1 |-> <<>>, string2 |-> <<>>]
    /\ tout = <<>>

\* The variable of main a reference returned by getLarger(x, y) is bound to.
Referent(ref, x, y) == IF ref = "a" THEN x ELSE y

\* int int1 = 5, int2 = 10;  cout << "Larger int: " << getLarger(int1, int2)
TplLargerInt ==
    /\ tpc = "ints"
    /\ tmem' = [tmem EXCEPT !.int1 = 5, !.int2 = 10]
    /\ tout' = Append(tout,
                 <<"Larger int: ",
                   tmem'[Referent(GetLarger("int", tmem'.int1, tmem'.int2),
                                  "int1", "int2")]>>)
    /\ tpc' = "doubles"
    /\ UNCHANGED <<largerString, tin>>
    /\ TemplatesOnly

\* double double1 = 3.5, double2 = 2.5;  cout << "Larger double: " << ...
TplLargerDouble ==
    /\ tpc = "doubles"
    /\ tmem' = [tmem EXCEPT !.double1 = <<7, 2>>, !.double2 = <<5, 2>>]
    /\ tout' = Append(tout,
                 <<"Larger double: ",
                   tmem'[Referent(GetLarger("double", tmem'.double1, tmem'.double2),
                                  "double1", "double2")]>>)
    /\ tpc' = "strings"
    /\ UNCHANGED <<largerString, tin>>
    /\ TemplatesOnly

\* std::string string1 = "Hello", string2 = "World";
TplDeclareStrings ==
    /\ tpc = "strings"
    /\ \E s1, s2 \in StringSamples :
          /\ tmem' = [tmem EXCEPT !.string1 = s1, !.string2 = s2]
          /\ tin' = [tin EXCEPT !.string1 = s1, !.string2 = s2]
    /\ tpc' = "bind"
    /\ UNCHANGED <<largerString, tout>>
    /\ TemplatesOnly

\* auto& largerString = getLarger(string1, string2);
TplBindLarger ==
    /\ tpc = "bind"
    /\ largerString' = Referent(GetLarger("std::string", tmem.string1, tmem.string2),
                                "string1", "string2")
    /\ tpc' = "assign"
    /\ UNCHANGED <<tmem, tin, tout>>
    /\ TemplatesOnly

\* largerString = "Hello World";  assigns to the variable the reference names.
TplAssign ==
    /\ tpc = "assign"
    /\ tmem' = [tmem EXCEPT ![largerString] = HelloWorld]
    /\ tpc' = "print_string2"
    /\ UNCHANGED <<largerString, tin, tout>>
    /\ TemplatesOnly

\* std::cout << "string2: " << string2 << std::endl;
TplPrintString2 ==
    /\ tpc = "print_string2"
    /\ tout' = Append(tout, <<"string2: ", tmem.string2>>)
    /\ tpc' = "arity"
    /\ UNCHANGED <<tmem, largerString, tin>>
    /\ TemplatesOnly

\* std::cout << "Arity of int: " << arity<int, float>::value << std::endl;
TplArity ==
    /\ tpc = "arity"
    /\ \E pack \in Packs :
          /\ tin' = [tin EXCEPT !.pack = pack]
          /\ tout' = Append(tout, <<"Arity of int: ", Arity(pack)>>)
    /\ tpc' = "sum"
    /\ UNCHANGED <<tmem, largerString>>
    /\ TemplatesOnly

\* std::cout << "Sum: " << sum(1, 2, ..., 10) << std::endl;  After a signed
\* overflow the behaviour is undefined: the build either goes on with the
\* wrapped value or traps.
TplSum ==
    /\ tpc = "sum"
    /\ \E call \in SumInputs :
          LET r == Sum(call.type, call.args)
          IN  /\ tin' = [tin EXCEPT !.sumType = call.type, !.sumArgs = call.args]
              /\ \/ /\ tout' = Append(tout, <<"Sum: ", r.value>>)
                    /\ tpc' = "return"
                 \/ /\ r.ub
                    /\ tout' = tout
                    /\ tpc' = "aborted"
    /\ UNCHANGED <<tmem, largerString>>
    /\ TemplatesOnly

\* return 0;
TplReturn ==
    /\ tpc = "return"
    /\ tpc' = "done"
    /\ UNCHANGED <<tmem, largerString, tin, tout>>
    /\ TemplatesOnly

TemplatesNext ==
    \/ TplLargerInt
    \/ TplLargerDouble
    \/ TplDeclareStrings
    \/ TplBindLarger
    \/ TplAssign
    \/ TplPrintString2
    \/ TplArity
    \/ TplSum
    \/ TplReturn

(***************************************************************************)
(* The smart pointer programs: unique_ptr, make_unique, shared_ptr         *)
(***************************************************************************)

\* A step of a smart pointer program touches no other program's state.
ResourceOnly == UNCHANGED <<printerVars, shapeVars, templVars, ifVars, emplaceVars, moveVars>>

\* "unique": useResource / main with std::unique_ptr<Resource>.
\* "make":   displayValue / main with std::unique_ptr<MyClass>.
\* "shared": main with shared_ptr<Resource> ptr1{new Resource()}.
ResPrograms == {"unique", "make", "shared"}

\* The addresses operator new may return.
MaxAddr == 2
Addresses == 1..MaxAddr

\* The smart pointer of "unique" and "make" is a local of a function main
\* calls; the one of "shared" is a local of main itself.
InFunction(p) == p \in {"unique", "make"}

ResourceInit ==
    /\ rpc = [p \in ResPrograms |-> IF InFunction(p) THEN "main" ELSE "new"]
    /\ rheap = [p \in ResPrograms |-> {}]
    /\ rlive = [p \in ResPrograms |-> {}]
    /\ rraw = [p \in ResPrograms |-> 0]
    /\ rptr = [p \in ResPrograms |-> 0]
    /\ ruse = [p \in ResPrograms |-> 0]
    /\ mvalue = 0
    /\ rout = [p \in ResPrograms |-> <<>>]

\* main: useResource();  /  displayValue(10);
ResCall(p) ==
    /\ InFunction(p)
    /\ rpc[p] = "main"
    /\ rpc' = [rpc EXCEPT ![p] = "new"]
    /\ UNCHANGED <<rheap, rlive, rraw, rptr, ruse, mvalue, rout>>
    /\ ResourceOnly

\* The allocation of std::make_unique<T>(...) / new Resource(): operator new
\* returns storage at some free address.
ResAlloc(p) ==
    /\ rpc[p] = "new"
    /\ \E a \in Addresses \ rheap[p] :
          /\ rheap' = [rheap EXCEPT ![p] = @ \cup {a}]
          /\ rraw' = [rraw EXCEPT ![p] = a]
    /\ rpc' = [rpc EXCEPT ![p] = "construct"]
    /\ UNCHANGED <<rlive, rptr, ruse, mvalue, rout>>
    /\ ResourceOnly

\* The constructor runs in the storage: Resource() prints "Resource acquired",
\* MyClass(int value) stores value (10, from displayValue(10)) in m_value.
ResConstruct(p) ==
    /\ rpc[p] = "construct"
    /\ rlive' = [rlive EXCEPT ![p] = @ \cup {rraw[p]}]
    /\ IF p = "make"
       THEN mvalue' = 10 /\ rout' = rout
       ELSE mvalue' = mvalue /\ rout' = [rout EXCEPT ![p] = Append(@, "Resource acquired\n")]
    /\ rpc' = [rpc EXCEPT ![p] = "own"]
    /\ UNCHANGED <<rheap, rraw, rptr, ruse>>
    /\ ResourceOnly

\* The smart pointer is initialised with the new object; a shared_ptr also
\* creates its control block with use count 1.
ResOwn(p) ==
    /\ rpc[p] = "own"
    /\ rptr' = [rptr EXCEPT ![p] = rraw[p]]
    /\ rraw' = [rraw EXCEPT ![p] = 0]
    /\ ruse' = [ruse EXCEPT ![p] = IF p = "shared" THEN 1 ELSE @]
    /\ rpc' = [rpc EXCEPT ![p] = IF p = "make" THEN "use" ELSE "exit"]
    /\ UNCHANGED <<rheap, rlive, mvalue, rout>>
    /\ ResourceOnly

\* displayValue: myClassPtr->display();  prints "Value: " << m_value
ResUse(p) ==
    /\ p = "make"
    /\ rpc[p] = "use"
    /\ rout' = [rout EXCEPT ![p] = Append(@, <<"Value: ", mvalue>>)]
    /\ rpc' = [rpc EXCEPT ![p] = "exit"]
    /\ UNCHANGED <<rheap, rlive, rraw, rptr, ruse, mvalue>>
    /\ ResourceOnly

\* Faulty variant of ResScopeExit: the scope's pointer does not own the object
\* (a raw Resource*), so leaving the scope destroys nothing.
ResScopeExitNoDelete(p) ==
    /\ rpc[p] = "exit"
    /\ rpc' = [rpc EXCEPT ![p] = IF InFunction(p) THEN "returned" ELSE "done"]
    /\ UNCHANGED <<rheap, rlive, rraw, rptr, ruse, mvalue, rout>>
    /\ ResourceOnly

\* The closing brace of the scope (for "shared": return 0): the smart pointer's
\* destructor starts.  ~unique_ptr deletes the pointer it owns; ~shared_ptr
\* decrements the use count and deletes when it reaches 0.
ResScopeExit(p) ==
    /\ rpc[p] = "exit"
    /\ ruse' = [ruse EXCEPT ![p] = IF p = "shared" THEN @ - 1 ELSE @]
    /\ rpc' = [rpc EXCEPT ![p] =
                 IF rptr[p] # 0 /\ ruse'[p] = 0 THEN "destroy"
                 ELSE IF InFunction(p) THEN "returned" ELSE "done"]
    /\ UNCHANGED <<rheap, rlive, rraw, rptr, mvalue, rout>>
    /\ ResourceOnly

\* delete, first half: the object's destructor; ~Resource() prints "Resource
\* released", MyClass has the implicit destructor.
ResDestroy(p) ==
    /\ rpc[p] = "destroy"
    /\ rlive' = [rlive EXCEPT ![p] = @ \ {rptr[p]}]
    /\ rout' = [rout EXCEPT ![p] =
                  IF p = "make" THEN @ ELSE Append(@, "Resource released\n")]
    /\ rpc' = [rpc EXCEPT ![p] = "free"]
    /\ UNCHANGED <<rheap, rraw, rptr, ruse, mvalue>>
    /\ ResourceOnly

\* delete, second half: operator delete gives the storage back; the smart
\* pointer is gone and control leaves the scope.
ResFree(p) ==
    /\ rpc[p] = "free"
    /\ rheap' = [rheap EXCEPT ![p] = @ \ {rptr[p]}]
    /\ rptr' = [rptr EXCEPT ![p] = 0]
    /\ rpc' = [rpc EXCEPT ![p] = IF InFunction(p) THEN "returned" ELSE "done"]
    /\ UNCHANGED <<rlive, rraw, ruse, mvalue, rout>>
    /\ ResourceOnly

\* main, after the call: return 0;
ResMainReturn(p) ==
    /\ rpc[p] = "returned"
    /\ rpc' = [rpc EXCEPT ![p] = "done"]
    /\ UNCHANGED <<rheap, rlive, rraw, rptr, ruse, mvalue, rout>>
    /\ ResourceOnly

ResourceNext ==
    \/ \E p \in ResPrograms : ResCall(p)
    \/ \E p \in ResPrograms : ResAlloc(p)
    \/ \E p \in ResPrograms : ResConstruct(p)
    \/ \E p \in ResPrograms : ResOwn(p)
    \/ \E p \in ResPrograms : ResUse(p)
    \/ \E p \in ResPrograms : ResScopeExit(p)
    \/ \E p \in ResPrograms : ResDestroy(p)
    \/ \E p \in ResPrograms : ResFree(p)
    \/ \E p \in ResPrograms : ResMainReturn(p)

(***************************************************************************)
(* The if statement with initializer                                       *)
(*   if (std::lock_guard<std::mutex> lk(mx); v.empty()) { v.push_back(val); }*)
(***************************************************************************)

\* A step of this statement touches no other program's state.
IfInitOnly == UNCHANGED <<printerVars, shapeVars, templVars, resVars, emplaceVars, moveVars>>

\* The threads that may run the statement; any number of them does.
MaxIfThreads == 4
IfThreads == 1..MaxIfThreads

\* The value each thread has in val.
Val(t) == t

IfInitInit ==
    /\ ipc = [t \in IfThreads |-> "idle"]
    /\ mx = FALSE
    /\ lk = [t \in IfThreads |-> FALSE]
    /\ v = <<>>

\* A thread reaches the statement.
IfEnter(t) ==
    /\ ipc[t] = "idle"
    /\ ipc' = [ipc EXCEPT ![t] = "init"]
    /\ UNCHANGED <<mx, lk, v>>
    /\ IfInitOnly

\* The init-statement: std::lock_guard<std::mutex> lk(mx); blocks while mx is
\* locked.
IfLock(t) ==
    /\ ipc[t] = "init"
    /\ ~mx
    /\ mx' = TRUE
    /\ lk' = [lk EXCEPT ![t] = TRUE]
    /\ ipc' = [ipc EXCEPT ![t] = "condition"]
    /\ UNCHANGED v
    /\ IfInitOnly

\* Faulty variant of IfCondition: the guard lives only as long as the condition
\* (the lock is taken inside the condition instead of the init-statement), so
\* mx is unlocked again before the block runs.
IfConditionUnlocks(t) ==
    /\ ipc[t] = "condition"
    /\ ipc' = [ipc EXCEPT ![t] = IF v = <<>> THEN "block" ELSE "exit"]
    /\ mx' = FALSE
    /\ lk' = [lk EXCEPT ![t] = FALSE]
    /\ UNCHANGED v
    /\ IfInitOnly

\* The condition: v.empty()
IfCondition(t) ==
    /\ ipc[t] = "condition"
    /\ ipc' = [ipc EXCEPT ![t] = IF v = <<>> THEN "block" ELSE "exit"]
    /\ UNCHANGED <<mx, lk, v>>
    /\ IfInitOnly

\* The block: v.push_back(val);
IfPushBack(t) ==
    /\ ipc[t] = "block"
    /\ v' = Append(v, Val(t))
    /\ ipc' = [ipc EXCEPT ![t] = "exit"]
    /\ UNCHANGED <<mx, lk>>
    /\ IfInitOnly

\* The end of the if statement: lk goes out of scope, ~lock_guard unlocks mx
\* (if this guard owns it).
IfExit(t) ==
    /\ ipc[t] = "exit"
    /\ mx' = IF lk[t] THEN FALSE ELSE mx
    /\ lk' = [lk EXCEPT ![t] = FALSE]
    /\ ipc' = [ipc EXCEPT ![t] = "done"]
    /\ UNCHANGED v
    /\ IfInitOnly

IfInitNext ==
    \/ \E t \in IfThreads : IfEnter(t)
    \/ \E t \in IfThreads : IfLock(t)
    \/ \E t \in IfThreads : IfCondition(t)
    \/ \E t \in IfThreads : IfPushBack(t)
    \/ \E t \in IfThreads : IfExit(t)

(***************************************************************************)
(* The emplace_back program: std::vector<MyClass>                          *)
(***************************************************************************)

\* A step of the emplace_back program touches no other program's state.
EmplaceOnly ==
    UNCHANGED <<printerVars, shapeVars, templVars, resVars, ifVars, moveVars>>

\* main's emplace_back calls, in order, with their arguments.
EmplaceCalls == << <<1, "Apple">>, <<2, "Banana">>, <<3, "Cherry">> >>

\* The capacity a growing vector may choose is up to the implementation: any
\* capacity that holds one element more, up to this bound.
MaxCapacity == 5

\* A slot of the storage without an object in it.
RawSlot == [state |-> "raw", m_x |-> 0, m_y |-> "", by |-> ""]

\* The object a constructor leaves in a slot; `by` names the constructor.
Object(x, y, by) == [state |-> "object", m_x |-> x, m_y |-> y, by |-> by]

EmplaceInit ==
    /\ epc = 1
    /\ estep = "call"
    /\ edata = <<>>
    /\ enew = <<>>
    /\ esize = 0
    /\ ector = <<>>
    /\ eout = <<>>

EmplaceRunning == epc <= Len(EmplaceCalls)

\* MyClass(int x, std::string y) : m_x(x), m_y(y) run on `slot` of `storage`:
\* the members are set and the line is printed.  Gives the new storage; the
\* caller records the call and the output with ConstructorEffects.
ConstructAt(storage, slot, x, y) ==
    [storage EXCEPT ![slot] = Object(x, y, "MyClass(int, std::string)")]

\* Faulty variant of MoveAt: relocation goes through a user-written copy
\* constructor that delegates to MyClass(int, std::string), so the constructor
\* of the class runs (and prints) again for every element moved.
MoveAtDelegating(from, to, slot) ==
    [storage |-> [to EXCEPT ![slot] =
                     Object(from[slot].m_x, from[slot].m_y, "MyClass(int, std::string)")],
     calls |-> << <<from[slot].m_x, from[slot].m_y>> >>]

\* The implicitly declared move constructor of MyClass, which reallocation uses
\* to carry element `slot` over: it copies m_x, moves m_y, calls no other
\* constructor and prints nothing.
MoveAt(from, to, slot) ==
    [storage |-> [to EXCEPT ![slot] =
                     Object(from[slot].m_x, from[slot].m_y, "MyClass(MyClass&&)")],
     calls |-> <<>>]

\* The line the constructor prints for a call <<x, y>>.
ConstructedLine(call) == <<"Constructed MyClass(", call[1], ", ", call[2], ")", "\n">>

RECURSIVE ConstructedLines(_)
ConstructedLines(calls) ==
    IF calls = <<>> THEN <<>>
    ELSE <<ConstructedLine(Head(calls))>> \o ConstructedLines(Tail(calls))

\* emplace_back with room left: the element is constructed in place at the end.
EmplaceInPlace ==
    /\ EmplaceRunning
    /\ estep = "call"
    /\ esize < Len(edata)
    /\ edata' = ConstructAt(edata, esize + 1, EmplaceCalls[epc][1], EmplaceCalls[epc][2])
    /\ ector' = Append(ector, EmplaceCalls[epc])
    /\ eout' = Append(eout, ConstructedLine(EmplaceCalls[epc]))
    /\ esize' = esize + 1
    /\ epc' = epc + 1
    /\ UNCHANGED <<estep, enew>>
    /\ EmplaceOnly

\* emplace_back with size() == capacity(): larger storage is allocated.
EmplaceGrow ==
    /\ EmplaceRunning
    /\ estep = "call"
    /\ esize = Len(edata)
    /\ \E cap \in (Len(edata) + 1)..MaxCapacity :
          enew' = [i \in 1..cap |-> RawSlot]
    /\ estep' = "construct"
    /\ UNCHANGED <<epc, edata, esize, ector, eout>>
    /\ EmplaceOnly

\* The new element is constructed in the new storage, behind the places of the
\* existing elements.
EmplaceConstructNew ==
    /\ estep = "construct"
    /\ enew' = ConstructAt(enew, esize + 1, EmplaceCalls[epc][1], EmplaceCalls[epc][2])
    /\ ector' = Append(ector, EmplaceCalls[epc])
    /\ eout' = Append(eout, ConstructedLine(EmplaceCalls[epc]))
    /\ estep' = "relocate"
    /\ UNCHANGED <<epc, edata, esize>>
    /\ EmplaceOnly

\* One existing element is moved into the new storage, first to last; the
\* old element is left moved-from (its m_y given away).
EmplaceRelocate ==
    /\ estep = "relocate"
    /\ \E slot \in 1..esize :
          /\ enew[slot].state = "raw"
          /\ \A j \in 1..(slot - 1) : enew[j].state = "object"
          /\ LET m == MoveAt(edata, enew, slot)
             IN  /\ enew' = m.storage
                 /\ ector' = ector \o m.calls
                 /\ eout' = eout \o ConstructedLines(m.calls)
          /\ edata' = [edata EXCEPT ![slot].state = "moved-from", ![slot].m_y = ""]
    /\ UNCHANGED <<epc, estep, esize>>
    /\ EmplaceOnly

\* All elements are carried over: the old ones are destroyed next.
EmplaceRelocated ==
    /\ estep = "relocate"
    /\ \A slot \in 1..esize : enew[slot].state = "object"
    /\ estep' = "destroy"
    /\ UNCHANGED <<epc, edata, enew, esize, ector, eout>>
    /\ EmplaceOnly

\* ~MyClass (implicit) on one element of the storage being given up, first to
\* last: at a reallocation the moved-from elements, at main's return all.
EmplaceDestroy ==
    /\ estep = "destroy"
    /\ \E slot \in 1..esize :
          /\ edata[slot].state # "raw"
          /\ \A j \in 1..(slot - 1) : edata[j].state = "raw"
          /\ edata' = [edata EXCEPT ![slot] = RawSlot]
    /\ UNCHANGED <<epc, estep, enew, esize, ector, eout>>
    /\ EmplaceOnly

\* The old storage holds no object any more: it is freed, the vector adopts
\* the new storage, and emplace_back returns.
EmplaceAdopt ==
    /\ EmplaceRunning
    /\ estep = "destroy"
    /\ \A slot \in 1..esize : edata[slot].state = "raw"
    /\ edata' = enew
    /\ enew' = <<>>
    /\ esize' = esize + 1
    /\ estep' = "call"
    /\ epc' = epc + 1
    /\ UNCHANGED <<ector, eout>>
    /\ EmplaceOnly

\* return 0;  myVector goes out of scope and its destructor starts.
EmplaceMainReturn ==
    /\ epc = Len(EmplaceCalls) + 1
    /\ estep = "call"
    /\ estep' = "destroy"
    /\ UNCHANGED <<epc, edata, enew, esize, ector, eout>>
    /\ EmplaceOnly

\* ~vector, last step: every element is destroyed, the storage is freed.
EmplaceVectorGone ==
    /\ epc = Len(EmplaceCalls) + 1
    /\ estep = "destroy"
    /\ \A slot \in 1..esize : edata[slot].state = "raw"
    /\ edata' = <<>>
    /\ esize' = 0
    /\ estep' = "done"
    /\ epc' = epc + 1
    /\ UNCHANGED <<enew, ector, eout>>
    /\ EmplaceOnly

EmplaceNext ==
    \/ EmplaceInPlace
    \/ EmplaceGrow
    \/ EmplaceConstructNew
    \/ EmplaceRelocate
    \/ EmplaceRelocated
    \/ EmplaceDestroy
    \/ EmplaceAdopt
    \/ EmplaceMainReturn
    \/ EmplaceVectorGone

(***************************************************************************)
(* The move semantics program: MovableClass                                *)
(***************************************************************************)

\* A step of the move semantics program touches no other program's state.
MoveOnly ==
    UNCHANGED <<printerVars, shapeVars, templVars, resVars, ifVars, emplaceVars>>

\* The names a function body gives its MovableClass locals.
MoveLocals == {"obj1", "obj2"}

\* The three statements the bodies are made of.
DefaultInit(x) == [kind |-> "default", var |-> x, from |-> ""]      \* MovableClass x;
MoveInit(x, y) == [kind |-> "move_init", var |-> x, from |-> y]     \* MovableClass x = std::move(y);
MoveAssign(x, y) == [kind |-> "move_assign", var |-> x, from |-> y] \* x = std::move(y);

\* void move_constructor()
MoveConstructorBody == << DefaultInit("obj1"), MoveInit("obj2", "obj1") >>

\* void move_assignment()
MoveAssignmentBody ==
    << DefaultInit("obj1"), DefaultInit("obj2"), MoveAssign("obj2", "obj1") >>

\* main: move_constructor(); move_assignment();
SourceMain == << MoveConstructorBody, MoveAssignmentBody >>

\* Besides the two functions of the source, the bodies of up to MaxStmts of
\* these statements that compile: a local is declared once, before it is used.
MaxStmts == 3
DistinctLocals == {p \in MoveLocals \X MoveLocals : p[1] # p[2]}
MoveStatements ==
    {DefaultInit(x) : x \in MoveLocals} \cup
    {MoveInit(p[1], p[2]) : p \in DistinctLocals} \cup
    {MoveAssign(p[1], p[2]) : p \in DistinctLocals}

Declares(st) == st.kind \in {"default", "move_init"}

WellFormed(body) ==
    \A i \in 1..Len(body) :
        LET declared == {body[j].var : j \in {k \in 1..(i - 1) : Declares(body[k])}}
        IN  /\ Declares(body[i]) => body[i].var \notin declared
            /\ ~Declares(body[i]) => body[i].var \in declared
            /\ body[i].from # "" => body[i].from \in declared

MoveBodies ==
    {b \in UNION {[1..n -> MoveStatements] : n \in 1..MaxStmts} : WellFormed(b)}

MainPrograms == {SourceMain} \cup {<<b>> : b \in MoveBodies}

\* Faulty variant of SpecialMembers: the class declares no move constructor
\* that takes part, so an initialisation from std::move default-constructs the
\* object and then assigns to it.
SpecialMembersNoMoveCtor(st) ==
    CASE st.kind = "default" -> <<"Constructor">>
      [] st.kind = "move_init" -> <<"Constructor", "Move Assignment Operator">>
      [] st.kind = "move_assign" -> <<"Move Assignment Operator">>

\* The member functions of MovableClass a statement calls, by what each of
\* them prints: MovableClass(), MovableClass(MovableClass&&), operator=(MovableClass&&).
SpecialMembers(st) ==
    CASE st.kind = "default" -> <<"Constructor">>
      [] st.kind = "move_init" -> <<"Move Constructor">>
      [] st.kind = "move_assign" -> <<"Move Assignment Operator">>

MoveProgramInit ==
    /\ mpc = "start"
    /\ mcalls = <<>>
    /\ mcall = 1
    /\ mstmt = 0
    /\ mlocals = <<>>
    /\ mstate = [x \in MoveLocals |-> "none"]
    /\ mdtors = [x \in MoveLocals |-> 0]
    /\ mstart = 0
    /\ mout = <<>>

\* The program starts; main's calls are those of the source or one other body.
MoveStart ==
    /\ mpc = "start"
    /\ \E prog \in MainPrograms : mcalls' = prog
    /\ mpc' = "main"
    /\ UNCHANGED <<mcall, mstmt, mlocals, mstate, mdtors, mstart, mout>>
    /\ MoveOnly

\* main calls its next function: a new scope without locals.
MoveCall ==
    /\ mpc = "main"
    /\ mcall <= Len(mcalls)
    /\ mpc' = "body"
    /\ mstmt' = 1
    /\ mlocals' = <<>>
    /\ mstate' = [x \in MoveLocals |-> "none"]
    /\ mdtors' = [x \in MoveLocals |-> 0]
    /\ mstart' = Len(mout)
    /\ UNCHANGED <<mcalls, mcall, mout>>
    /\ MoveOnly

\* The next statement of the body: the member functions it calls print; a
\* declaration adds a live local; the source of a move is left moved-from.
MoveStatement ==
    /\ mpc = "body"
    /\ mstmt <= Len(mcalls[mcall])
    /\ LET st == mcalls[mcall][mstmt]
       IN  /\ mout' = mout \o SpecialMembers(st)
           /\ mlocals' = IF Declares(st) THEN Append(mlocals, st.var) ELSE mlocals
           /\ mstate' = [x \in MoveLocals |->
                           IF x = st.from THEN "moved-from"
                           ELSE IF x = st.var THEN "live"
                           ELSE mstate[x]]
    /\ mstmt' = mstmt + 1
    /\ UNCHANGED <<mpc, mcalls, mcall, mdtors, mstart>>
    /\ MoveOnly

\* The closing brace of the function: the locals are destroyed in the reverse
\* order of their construction, one ~MovableClass() each, moved-from or not.
MoveScopeExit ==
    /\ mpc = "body"
    /\ mstmt > Len(mcalls[mcall])
    /\ mlocals # <<>>
    /\ LET x == mlocals[Len(mlocals)]
       IN  /\ mout' = Append(mout, "Destructor")
           /\ mstate' = [mstate EXCEPT ![x] = "destroyed"]
           /\ mdtors' = [mdtors EXCEPT ![x] = @ + 1]
    /\ mlocals' = SubSeq(mlocals, 1, Len(mlocals) - 1)
    /\ UNCHANGED <<mpc, mcalls, mcall, mstmt, mstart>>
    /\ MoveOnly

\* The function returns to main.
MoveFunctionReturn ==
    /\ mpc = "body"
    /\ mstmt > Len(mcalls[mcall])
    /\ mlocals = <<>>
    /\ mpc' = "main"
    /\ mcall' = mcall + 1
    /\ mstmt' = 0
    /\ UNCHANGED <<mcalls, mlocals, mstate, mdtors, mstart, mout>>
    /\ MoveOnly

\* return 0;
MoveMainReturn ==
    /\ mpc = "main"
    /\ mcall > Len(mcalls)
    /\ mpc' = "done"
    /\ UNCHANGED <<mcalls, mcall, mstmt, mlocals, mstate, mdtors, mstart, mout>>
    /\ MoveOnly

MoveNext ==
    \/ MoveStart
    \/ MoveCall
    \/ MoveStatement
    \/ MoveScopeExit
    \/ MoveFunctionReturn
    \/ MoveMainReturn

(***************************************************************************)
(* Specifications                                                          *)
(***************************************************************************)

Init == PrinterInit /\ ShapesInit /\ TemplatesInit /\ ResourceInit /\ IfInitInit
        /\ EmplaceInit /\ MoveProgramInit

Spec == Init /\ [][Next]_vars

\* The printer under a fair scheduler: a thread that can take a step and stays
\* able to is eventually run.  Weak fairness is all the program needs of the
\* mutex: a worker waiting in lock() is disabled only while the other worker
\* holds coutMutex, and no worker locks twice.
FairSpec ==
    /\ Spec
    /\ WF_vars(MainStep)
    /\ \A w \in Workers : WF_vars(WorkerStep(w))

SpecShapes == Init /\ [][ShapesNext]_vars

SpecTemplates == Init /\ [][TemplatesNext]_vars

SpecResource == Init /\ [][ResourceNext]_vars

SpecIfInit == Init /\ [][IfInitNext]_vars

SpecEmplace == Init /\ [][EmplaceNext]_vars

SpecMove == Init /\ [][MoveNext]_vars
(***************************************************************************)
(* Properties of the threaded printer                                      *)
(***************************************************************************)

\* The workers that are at their write to std::cout.
Writing == {w \in Workers : wpc[w] = "write"}

\* The workers whose lock_guard owns coutMutex.
Holding == {w \in Workers : lockGuard[w]}

\* How many of the strings written so far carry worker w's message.
Written(w, out) == Cardinality({i \in 1..Len(out) : out[i][2] = Message(w)})

\* C1: at most one worker is at its write to std::cout, a worker writes only
\* while its lock_guard owns coutMutex, and the mutex is never owned by two
\* workers at once.
MutualExclusion ==
    /\ Cardinality(Writing) <= 1
    /\ \A w \in Writing : lockGuard[w] /\ coutMutex
    /\ Cardinality(Holding) <= 1
    /\ (Holding # {}) => coutMutex

\* C1 witness: one worker is writing under the lock while the other waits at
\* its lock_guard.
OneWritesOtherWaits ==
    \E w, x \in Workers : wpc[w] = "write" /\ lockGuard[w] /\ wpc[x] = "lock"

\* C2: whenever main has passed its join loop and returned, both workers have
\* completed: each has written its message and released the lock.
MainWaitsForWorkers ==
    mainPc = "done" =>
        /\ \A w \in Workers :
              wpc[w] = "finished" /\ Written(w, cout) = 1 /\ ~lockGuard[w]
        /\ ~coutMutex

\* C2 witness: main has returned after joining both threads.
MainHasReturned == mainPc = "done" /\ joinIdx = 3 /\ Len(cout) = 2

\* C3: the start order fixes no output order.  With both workers waiting for
\* the free mutex and nothing written yet, either of them may take the lock
\* next; and the worker that has the lock is the only one that can write, so
\* the one that locks first prints first.
NoOrderingGuarantee ==
    /\ (/\ \A w \in Workers : wpc[w] = "lock"
        /\ ~coutMutex
        /\ cout = <<>>)
          => \A w \in Workers : ENABLED PrintLock(w)
    /\ \A w \in Workers :
          wpc[w] = "write" => \A x \in Workers \ {w} : ~ENABLED PrintWrite(x)

\* C3 witness: someThreadFunction's message is the only one written so far,
\* although the lambda thread was started first.
FunctionPrintsFirst ==
    /\ threadsVector = <<"lambda", "someThreadFunction">>
    /\ Len(cout) = 1
    /\ cout[1][2] = Message("someThreadFunction")
    /\ wpc["lambda"] = "lock"

\* The other order of C3: the lambda's message is the only one written so far.
LambdaPrintsFirst ==
    /\ Len(cout) = 1
    /\ cout[1][2] = Message("lambda")
    /\ wpc["someThreadFunction"] = "lock"

\* The steps of printMessage, in order.
PrintSteps ==
    { <<"unstarted", "format">>, <<"format", "lock">>, <<"lock", "write">>,
      <<"write", "unlock">>, <<"unlock", "finished">> }

\* What one step may do to worker w.
StepInOrder(w) ==
    /\ wpc'[w] # wpc[w] => <<wpc[w], wpc'[w]>> \in PrintSteps
    \* formatting: not under the lock, and only the private buffer changes
    /\ (wpc[w] = "format" /\ wpc'[w] = "lock") =>
          /\ ~lockGuard[w] /\ ~lockGuard'[w]
          /\ oss'[w] = Format(Message(w), threadId[w])
          /\ \A x \in Workers \ {w} : oss'[x] = oss[x]
          /\ UNCHANGED <<coutMutex, lockGuard, cout>>
    \* then the lock is taken, and nothing is written yet
    /\ (wpc[w] = "lock" /\ wpc'[w] = "write") =>
          ~coutMutex /\ coutMutex' /\ lockGuard'[w] /\ cout' = cout
    \* then one write of the whole buffer, under the lock
    /\ (wpc[w] = "write" /\ wpc'[w] = "unlock") =>
          lockGuard[w] /\ lockGuard'[w] /\ cout' = Append(cout, oss[w])
    \* then the lock is released
    /\ (wpc[w] = "unlock" /\ wpc'[w] = "finished") =>
          lockGuard[w] /\ ~lockGuard'[w] /\ ~coutMutex' /\ cout' = cout
    \* a string of w's reaches the stream only in w's write step
    /\ Written(w, cout') # Written(w, cout) =>
          wpc[w] = "write" /\ wpc'[w] = "unlock"
    \* never more than one write, and exactly one once w is through
    /\ Written(w, cout') <= 1
    /\ wpc'[w] \in {"unlock", "finished"} <=> Written(w, cout') = 1

\* C4: every worker goes through printMessage as format (outside the lock,
\* private buffer only), lock, one write, unlock, in this order and no other,
\* and writes exactly once.
PrintMessageOrder == [][\A w \in Workers : StepInOrder(w)]_vars

\* C4 witness: both workers have gone through all the steps.
BothWorkersThrough ==
    /\ \A w \in Workers : wpc[w] = "finished"
    /\ Len(cout) = 2

\* The printer program has ended: main has returned from every join, both
\* workers are through, each message is on std::cout once, coutMutex is free.
PrinterFinal ==
    /\ mainPc = "done"
    /\ joinIdx = Len(threadsVector) + 1
    /\ Len(threadsVector) = Cardinality(Workers)
    /\ \A w \in Workers : wpc[w] = "finished" /\ Written(w, cout) = 1
    /\ Len(cout) = Cardinality(Workers)
    /\ ~coutMutex
    /\ \A w \in Workers : ~lockGuard[w]

\* C13: under fair scheduling of main and the two workers every execution of
\* the printer program terminates.  A state in which no thread can take a step
\* is the final state (no deadlock); each join eventually returns; and the
\* program eventually reaches, and stays in, the final state, where both
\* messages have been written exactly once and coutMutex is free.
PrinterTerminates ==
    /\ [](~ENABLED Next => PrinterFinal)
    /\ \A i \in 1..Cardinality(Workers) : <>(joinIdx > i)
    /\ <>[]PrinterFinal

\* The program has ended after the workers contended for the mutex in the
\* order opposite to their start: the function's message came out first.
EndedFunctionFirst ==
    /\ PrinterFinal
    /\ ~ENABLED Next
    /\ cout[1][2] = Message("someThreadFunction")
    /\ cout[2][2] = Message("lambda")

(***************************************************************************)
(* Properties of the shape programs                                        *)
(***************************************************************************)

\* C5: the CRTP program prints "Drawing Circle" and then "Drawing Square", and
\* this is what the virtual-function version prints: while running, each has
\* printed a prefix of it, and each render call ends up in the implementation
\* of its argument's own class.
ExpectedShapeOutput == <<"Drawing Circle\n", "Drawing Square\n">>

CrtpMatchesVirtual ==
    /\ \A p \in Programs :
          /\ Len(sout[p]) <= Len(ExpectedShapeOutput)
          /\ sout[p] = SubSeq(ExpectedShapeOutput, 1, Len(sout[p]))
    /\ ShapeDone("crtp") => sout["crtp"] = ExpectedShapeOutput
    /\ (ShapeDone("crtp") /\ ShapeDone("virtual")) => sout["crtp"] = sout["virtual"]
    /\ \A p \in Programs : \A i \in 1..Len(sstack[p]) :
          sstack[p][i].fn \in {"draw", "drawImpl"} =>
              sstack[p][i].cls = sobjs[p][sstack[p][i].self]

\* C5 witness: both versions have run to the end and printed both lines.
BothShapeProgramsDone ==
    /\ ShapeDone("crtp") /\ ShapeDone("virtual")
    /\ Len(sout["crtp"]) = 2 /\ Len(sout["virtual"]) = 2

(***************************************************************************)
(* Properties of the template program                                      *)
(***************************************************************************)

\* The sum of a sequence of numbers small enough to be added up directly.
RECURSIVE SmallSum(_)
SmallSum(q) == IF q = <<>> THEN 0 ELSE Head(q) + SmallSum(Tail(q))

\* r is the arithmetic (unbounded) sum of args.  The arguments are split into
\* a low and a high part so that no intermediate value leaves the range the
\* integers are represented in, however large the exact sum is.
IsArithmeticSum(args, r) ==
    LET lo == SmallSum([i \in DOMAIN args |-> args[i] % 65536])
        hi == SmallSum([i \in DOMAIN args |-> args[i] \div 65536])
    IN  /\ r \div 65536 = hi + (lo \div 65536)
        /\ r % 65536 = lo % 65536

\* Every partial sum acc + q[1] + ... + q[i] lies in the range of type T.
RECURSIVE PartialSumsFit(_, _, _)
PartialSumsFit(T, q, acc) ==
    \/ q = <<>>
    \/ /\ Head(q) >= 0 => acc <= TypeMax(T) - Head(q)
       /\ Head(q) < 0 => acc >= TypeMin(T) - Head(q)
       /\ PartialSumsFit(T, Tail(q), acc + Head(q))

\* The sum statement of main has been reached and has ended, either way.
SumCalled == tin.sumType # ""

\* C6 as stated: for every non-empty argument list of one type sum returns
\* the arithmetic sum of its arguments, and "Sum: <that sum>" is printed.
SumIsArithmeticSum ==
    SumCalled =>
        /\ Len(tout) = 5
        /\ tout[5][1] = "Sum: "
        /\ IsArithmeticSum(tin.sumArgs, tout[5][2])

\* C6 as amended: for integer arguments of one type whose partial sums (from
\* First{0}, left to right) all lie in the range of that type, sum returns the
\* arithmetic sum; sum(1, ..., 10) returns 55 and "Sum: 55" is printed.
SumWithinRange ==
    /\ (SumCalled /\ PartialSumsFit(tin.sumType, tin.sumArgs, 0)) =>
          /\ Len(tout) = 5
          /\ tout[5][1] = "Sum: "
          /\ IsArithmeticSum(tin.sumArgs, tout[5][2])
    /\ (SumCalled /\ tin.sumType = "int" /\ tin.sumArgs = MainSumArgs) =>
          /\ Len(tout) = 5
          /\ tout[5] = <<"Sum: ", 55>>

\* C6 witness: main's own call sum(1, ..., 10) has printed its result.
MainSumPrinted ==
    /\ tin.sumType = "int"
    /\ tin.sumArgs = MainSumArgs
    /\ Len(tout) = 5

\* The number of types of a pack, counted one by one.
RECURSIVE CountTypes(_)
CountTypes(pack) == IF pack = <<>> THEN 0 ELSE 1 + CountTypes(Tail(pack))

\* C7: arity<T...>::value is the number of type arguments of the pack, for
\* every pack of zero or more types; arity<int, float>::value is 2.
ArityCountsPack ==
    Len(tout) >= 4 =>
        /\ tout[4][1] = "Arity of int: "
        /\ tout[4][2] = CountTypes(tin.pack)
        /\ tin.pack = <<"int", "float">> => tout[4][2] = 2
        /\ tin.pack = <<>> => tout[4][2] = 0

\* C7 witness: main's own arity<int, float>::value has been printed.
MainArityPrinted == Len(tout) >= 4 /\ tin.pack = <<"int", "float">>

\* "Hello world!", the value the README gives for string2.
HelloWorldBang == <<72, 101, 108, 108, 111, 32, 119, 111, 114, 108, 100, 33>>

\* main's own strings have been printed: string1 = "Hello", string2 = "World".
MainStringsPrinted ==
    Len(tout) >= 3 /\ tin.string1 = Hello /\ tin.string2 = World

\* C8: with string1 = "Hello" and string2 = "World", the value printed for
\* string2 is "Hello world!".
String2IsHelloWorldBang ==
    MainStringsPrinted => tout[3] = <<"string2: ", HelloWorldBang>>

\* What the program does print there: largerString is bound to string2, and
\* string2 is printed with the value assigned through it, "Hello World".
String2IsAssignedValue ==
    MainStringsPrinted =>
        largerString = "string2" /\ tout[3] = <<"string2: ", HelloWorld>>

(***************************************************************************)
(* Properties of the smart pointer programs                                *)
(***************************************************************************)

ResourceOutput == <<"Resource acquired\n", "Resource released\n">>

\* Control is in main, after the call of the function that owns the object.
BackInMain(p) == rpc[p] \in {"returned", "done"}

\* C9: the Resource created inside useResource is released when useResource's
\* scope exits: "Resource released" follows "Resource acquired" before control
\* is back in main, so wherever main is after the call the Resource is already
\* released (destroyed, its storage given back); the same holds for the
\* MyClass object of displayValue.
ReleasedOnScopeExit ==
    /\ BackInMain("unique") =>
          /\ rout["unique"] = ResourceOutput
          /\ rlive["unique"] = {}
          /\ rheap["unique"] = {}
    /\ Len(rout["unique"]) <= Len(ResourceOutput)
    /\ rout["unique"] = SubSeq(ResourceOutput, 1, Len(rout["unique"]))
    /\ rpc["unique"] = "main" => rout["unique"] = <<>>
    /\ BackInMain("make") => rlive["make"] = {} /\ rheap["make"] = {}

\* C9 witness: useResource has returned to main, which has not returned yet.
UseResourceReturned ==
    rpc["unique"] = "returned" /\ Len(rout["unique"]) = 2

(***************************************************************************)
(* Properties of the if statement with initializer                         *)
(***************************************************************************)

\* The threads that have left the statement, and those inside its scope.
IfLeft == {t \in IfThreads : ipc[t] = "done"}
IfInside == {t \in IfThreads : ipc[t] \in {"condition", "block", "exit"}}

\* C10: mx is locked before the condition is checked and stays locked until
\* the if statement is left, so check and push_back are one atomic step for
\* the threads running the statement: however many threads run it on the
\* initially empty v, v never has more than one element and has exactly one
\* once a thread has left the statement; a thread that has left does not own
\* mx, and mx is unlocked when no thread is inside.
CheckAndPushAtomic ==
    /\ \A t \in IfInside : lk[t] /\ mx
    /\ Cardinality(IfInside) <= 1
    /\ Len(v) <= 1
    /\ IfLeft # {} => Len(v) = 1
    /\ \A t \in IfThreads : ipc[t] \in {"idle", "init", "done"} => ~lk[t]
    /\ IfInside = {} => ~mx

\* C10 witness: every thread has run the statement and left it, and v holds
\* the one element pushed.
AllThreadsLeft ==
    /\ IfLeft = IfThreads
    /\ Len(v) = 1
    /\ ~mx

\* A state of contention: one thread is in the block while two others wait for
\* mx at the init-statement.
OneInBlockOthersWaiting ==
    \E t \in IfThreads :
        /\ ipc[t] = "block"
        /\ Cardinality({x \in IfThreads : ipc[x] = "init"}) >= 2

(***************************************************************************)
(* Properties of the emplace_back program                                  *)
(***************************************************************************)

\* The emplace_back calls that have returned.
EmplaceReturned == IF epc <= Len(EmplaceCalls) THEN epc - 1 ELSE Len(EmplaceCalls)

\* main is past its three emplace_back calls and has not returned yet.
AfterThreeCalls == epc = Len(EmplaceCalls) + 1 /\ estep = "call"

\* C11: each emplace_back(x, y) calls MyClass(int, std::string) exactly once,
\* with its own arguments, in call order: the constructor calls so far are the
\* first calls of main, one per returned call (and one for a running call that
\* has constructed its element); the lines printed are those of these calls,
\* once each and in order; and after the three calls the vector holds the
\* three objects.
EmplaceConstructsOnce ==
    /\ Len(ector) <= Len(EmplaceCalls)
    /\ ector = SubSeq(EmplaceCalls, 1, Len(ector))
    /\ Len(ector) \in {EmplaceReturned, EmplaceReturned + 1}
    /\ estep \in {"call", "construct", "done"} => Len(ector) = EmplaceReturned
    /\ estep = "relocate" => Len(ector) = EmplaceReturned + 1
    /\ eout = ConstructedLines(ector)
    /\ AfterThreeCalls =>
          /\ ector = EmplaceCalls
          /\ eout = << ConstructedLine(<<1, "Apple">>),
                       ConstructedLine(<<2, "Banana">>),
                       ConstructedLine(<<3, "Cherry">>) >>
          /\ esize = 3
          /\ \A i \in 1..3 :
                /\ edata[i].state = "object"
                /\ <<edata[i].m_x, edata[i].m_y>> = EmplaceCalls[i]

\* C11 witness: the three calls have returned, and the vector had to move an
\* element to larger storage on the way.
ThreeEmplacedWithRelocation ==
    /\ AfterThreeCalls
    /\ esize = 3
    /\ \E i \in 1..esize : edata[i].by = "MyClass(MyClass&&)"
(***************************************************************************)
(* Properties of the move semantics program                                *)
(***************************************************************************)

\* What the last function main called has printed.
CallEvents == SubSeq(mout, mstart + 1, Len(mout))

\* The function main called last has returned.
MoveReturned == mpc \in {"main", "done"} /\ mcall > 1

LastBody == mcalls[mcall - 1]

RECURSIVE CountOf(_, _)
CountOf(seq, S) ==
    IF seq = <<>> THEN 0
    ELSE (IF Head(seq) \in S THEN 1 ELSE 0) + CountOf(Tail(seq), S)

Declared(body) == {body[i].var : i \in {k \in 1..Len(body) : Declares(body[k])}}

\* One line per statement, in order: the move constructor for an
\* initialisation from std::move, the move assignment operator for an
\* assignment, the default constructor for a plain declaration.
StatementLines(body) ==
    [i \in 1..Len(body) |->
        CASE body[i].kind = "default" -> "Constructor"
          [] body[i].kind = "move_init" -> "Move Constructor"
          [] body[i].kind = "move_assign" -> "Move Assignment Operator"]

\* C12: move_constructor() prints Constructor, Move Constructor, Destructor,
\* Destructor and move_assignment() prints Constructor, Constructor, Move
\* Assignment Operator, Destructor, Destructor.  In every function that has
\* returned, each statement printed the one line of its kind (an initialisation
\* from std::move the move constructor's, an assignment from std::move the
\* move assignment operator's), as many objects were constructed as were
\* declared (an assignment constructs none), and every declared object, the
\* moved-from ones included, was destroyed exactly once.
MoveEventSequences ==
    /\ (mcalls = SourceMain /\ mcall >= 2) =>
           SubSeq(mout, 1, 4) =
               <<"Constructor", "Move Constructor", "Destructor", "Destructor">>
    /\ (mcalls = SourceMain /\ mcall >= 3) =>
           SubSeq(mout, 5, 9) =
               <<"Constructor", "Constructor", "Move Assignment Operator",
                 "Destructor", "Destructor">>
    /\ MoveReturned =>
           /\ SubSeq(CallEvents, 1, Len(LastBody)) = StatementLines(LastBody)
           /\ CountOf(CallEvents, {"Constructor", "Move Constructor"})
                  = Cardinality(Declared(LastBody))
           /\ CountOf(CallEvents, {"Destructor"}) = Cardinality(Declared(LastBody))
           /\ \A x \in MoveLocals :
                  /\ mdtors[x] = (IF x \in Declared(LastBody) THEN 1 ELSE 0)
                  /\ x \in Declared(LastBody) => mstate[x] = "destroyed"

\* main of the source has returned from both move_constructor() and
\* move_assignment(), having printed all nine lines.
BothMoveFunctionsReturned ==
    /\ mpc = "done"
    /\ mcalls = SourceMain
    /\ Len(mout) = 9

====
